---- MODULE Spec2Model ----
(***************************************************************************)
(* Model of src/core/distance.rs: the Distance metric enumeration, its     *)
(* distance() computation over two f32 vectors, and its name()/from_name() *)
(* /Display/FromStr conversions.                                           *)
(*                                                                         *)
(* f32 arithmetic is modelled bit-exactly (IEEE-754 binary32, round to     *)
(* nearest, ties to even, subnormals, signed zeros, infinities, one NaN).  *)
(* A finite value is (-1)^s * m * 2^e with an integer significand m: a     *)
(* normal number has 2^23 <= m < 2^24 and MinExp <= e <= MaxExp, a         *)
(* subnormal has 0 < m < 2^23 and e = MinExp, zero has m = 0, e = MinExp.  *)
(* Every intermediate stays below 2^31.                                    *)
(***************************************************************************)
EXTENDS Integers, Sequences, FiniteSets

\* f32: 24 significand bits, least exponent of the integer-significand form
\* (2^-149 is the least subnormal), greatest one ((2^24-1)*2^104 is f32::MAX).
MantBits == 24
MinExp == -149
MaxExp == 104

Hidden == 2^(MantBits - 1)
MantLimit == 2^MantBits

NaN == [k |-> "nan", s |-> 0, m |-> 0, e |-> 0]
Inf(s) == [k |-> "inf", s |-> s, m |-> 0, e |-> 0]
Fin(s, m, e) == [k |-> "fin", s |-> s, m |-> m, e |-> e]
Zero(s) == Fin(s, 0, MinExp)

IsNaN(x) == x.k = "nan"
IsInf(x) == x.k = "inf"
IsFinite(x) == x.k = "fin"
IsZero(x) == x.k = "fin" /\ x.m = 0

\* The number of bits of n, 0 <= n < 2^31, known to lie in lo..hi.
RECURSIVE BitLenIn(_, _, _)
BitLenIn(n, lo, hi) ==
    IF lo = hi THEN lo
    ELSE LET mid == (lo + hi) \div 2
         IN  IF n < 2^mid THEN BitLenIn(n, lo, mid) ELSE BitLenIn(n, mid + 1, hi)
BitLen(n) == BitLenIn(n, 0, 31)

\* Overflow to infinity past f32::MAX.
Pack(s, m, e) == IF e > MaxExp THEN Inf(s) ELSE Fin(s, m, e)

\* The f32 nearest to (-1)^s * (M + f) * 2^E, ties to even, where 0 <= f < 1
\* and f > 0 iff sticky. M < 2^30; sticky only with M of 25 bits or more.
Round(s, M, E, sticky) ==
    IF M = 0 THEN Zero(s)
    ELSE LET L == BitLen(M)
             et == IF E + L - MantBits < MinExp THEN MinExp ELSE E + L - MantBits
             sh == et - E
         IN  IF sh <= 0 THEN Pack(s, M * 2^(0 - sh), et)
             ELSE IF sh > 30 THEN Zero(s)
             ELSE LET q == M \div 2^sh
                      r == M % 2^sh
                      half == 2^(sh - 1)
                      up == r > half \/ (r = half /\ (sticky \/ q % 2 = 1))
                      m1 == IF up THEN q + 1 ELSE q
                  IN  IF m1 = MantLimit THEN Pack(s, Hidden, et + 1)
                      ELSE Pack(s, m1, et)

\* A non-zero significand shifted up to 24 bits, with its exponent.
Normalize(m, e) ==
    IF m >= Hidden THEN <<m, e>>
    ELSE LET k == MantBits - BitLen(m) IN <<m * 2^k, e - k>>

Neg(x) == IF IsNaN(x) THEN NaN ELSE [x EXCEPT !.s = 1 - x.s]

\* f32::abs
Abs(x) == IF IsNaN(x) THEN NaN ELSE [x EXCEPT !.s = 0]

\* Sum of two finite non-zero values.
AddFinite(x, y) ==
    LET a == IF x.e >= y.e THEN x ELSE y
        b == IF x.e >= y.e THEN y ELSE x
        d == a.e - b.e
        sh == d - 5
        A == IF d <= 5 THEN a.m * 2^d ELSE a.m * 32
        B == IF d <= 5 THEN b.m ELSE IF sh > 30 THEN 0 ELSE b.m \div 2^sh
        E == IF d <= 5 THEN b.e ELSE a.e - 5
        lost == IF d <= 5 THEN FALSE ELSE IF sh > 30 THEN TRUE ELSE b.m % 2^sh # 0
    IN  IF a.s = b.s THEN Round(a.s, A + B, E, lost)
        ELSE IF lost THEN Round(a.s, A - B - 1, E, TRUE)
        ELSE IF A = B THEN Zero(0)
        ELSE IF A > B THEN Round(a.s, A - B, E, FALSE)
        ELSE Round(b.s, B - A, E, FALSE)

\* f32 addition
Add(x, y) ==
    IF IsNaN(x) \/ IsNaN(y) THEN NaN
    ELSE IF IsInf(x) THEN (IF IsInf(y) /\ y.s # x.s THEN NaN ELSE x)
    ELSE IF IsInf(y) THEN y
    ELSE IF IsZero(x) /\ IsZero(y) THEN Zero(IF x.s = y.s THEN x.s ELSE 0)
    ELSE IF IsZero(x) THEN y
    ELSE IF IsZero(y) THEN x
    ELSE AddFinite(x, y)

\* f32 subtraction
Sub(x, y) == Add(x, Neg(y))

\* f32 multiplication
Mul(x, y) ==
    LET s == (x.s + y.s) % 2 IN
    IF IsNaN(x) \/ IsNaN(y) THEN NaN
    ELSE IF IsInf(x) \/ IsInf(y)
         THEN (IF IsZero(x) \/ IsZero(y) THEN NaN ELSE Inf(s))
    ELSE IF IsZero(x) \/ IsZero(y) THEN Zero(s)
    ELSE LET nx == Normalize(x.m, x.e)
             ny == Normalize(y.m, y.e)
             a1 == nx[1] \div 4096
             b1 == nx[1] % 4096
             a2 == ny[1] \div 4096
             b2 == ny[1] % 4096
             lo == b1 * b2
             mid == a1 * b2 + a2 * b1 + (lo \div 4096)
             hi == a1 * a2 + (mid \div 4096)
             l0 == lo % 4096
             l1 == mid % 4096
         IN  Round(s, hi * 32 + (l1 \div 128), nx[2] + ny[2] + 19,
                   l1 % 128 # 0 \/ l0 # 0)

\* Long division, six quotient bits per step: <<n div d, n mod d>> for
\* n = (q * d + rem) * 64^steps, with rem < d < 2^24.
RECURSIVE DivBits(_, _, _, _)
DivBits(rem, d, steps, q) ==
    IF steps = 0 THEN <<q, rem>>
    ELSE DivBits((rem * 64) % d, d, steps - 1, q * 64 + (rem * 64) \div d)

\* f32 division
Div(x, y) ==
    LET s == (x.s + y.s) % 2 IN
    IF IsNaN(x) \/ IsNaN(y) THEN NaN
    ELSE IF IsInf(x) THEN (IF IsInf(y) THEN NaN ELSE Inf(s))
    ELSE IF IsInf(y) THEN Zero(s)
    ELSE IF IsZero(y) THEN (IF IsZero(x) THEN NaN ELSE Inf(s))
    ELSE IF IsZero(x) THEN Zero(s)
    ELSE LET nx == Normalize(x.m, x.e)
             ny == Normalize(y.m, y.e)
             qr == DivBits(nx[1] % ny[1], ny[1], 4, nx[1] \div ny[1])
             q == qr[1] * 4 + (qr[2] * 4) \div ny[1]
             rem == (qr[2] * 4) % ny[1]
         IN  Round(s, q, nx[2] - ny[2] - 26, rem # 0)

\* Integer square root of mm * 2^26, two radicand bits per step:
\* <<root, remainder>>; mm < 2^26.
RECURSIVE SqrtBits(_, _, _, _)
SqrtBits(mm, i, rem, root) ==
    IF i < 0 THEN <<root, rem>>
    ELSE LET pair == IF i >= 13 THEN (mm \div 4^(i - 13)) % 4 ELSE 0
             r2 == rem * 4 + pair
             t == root * 4 + 1
         IN  IF r2 >= t THEN SqrtBits(mm, i - 1, r2 - t, 2 * root + 1)
             ELSE SqrtBits(mm, i - 1, r2, 2 * root)

\* f32::sqrt
Sqrt(x) ==
    IF IsNaN(x) THEN NaN
    ELSE IF IsZero(x) THEN x
    ELSE IF x.s = 1 THEN NaN
    ELSE IF IsInf(x) THEN x
    ELSE LET nx == Normalize(x.m, x.e)
             odd == nx[2] % 2 = 1
             mm == IF odd THEN 2 * nx[1] ELSE nx[1]
             ee == IF odd THEN nx[2] - 1 ELSE nx[2]
             rr == SqrtBits(mm, 25, 0, 0)
         IN  Round(0, rr[1], (ee - 26) \div 2, rr[2] # 0)

\* |x| < |y| for values that are not NaN.
MagLt(x, y) ==
    IF IsInf(x) THEN FALSE
    ELSE IF IsInf(y) THEN TRUE
    ELSE x.e < y.e \/ (x.e = y.e /\ x.m < y.m)

\* f32 ==, <, >
FEq(x, y) ==
    /\ ~IsNaN(x) /\ ~IsNaN(y)
    /\ (IsZero(x) /\ IsZero(y)) \/ x = y
FLt(x, y) ==
    /\ ~IsNaN(x) /\ ~IsNaN(y)
    /\ ~(IsZero(x) /\ IsZero(y))
    /\ \/ x.s = 1 /\ y.s = 0
       \/ x.s = 0 /\ y.s = 0 /\ MagLt(x, y)
       \/ x.s = 1 /\ y.s = 1 /\ MagLt(y, x)
FGt(x, y) == FLt(y, x)

\* f32::clamp
Clamp(x, lo, hi) ==
    LET a == IF FLt(x, lo) THEN lo ELSE x
    IN  IF FGt(a, hi) THEN hi ELSE a

\* f32::powi(2)
Powi2(x) == Mul(x, x)

\* The f32 of a small integer literal (3.0, -1.0, ...).
Lit(n) == Round(IF n < 0 THEN 1 ELSE 0, IF n < 0 THEN 0 - n ELSE n, 0, FALSE)

\* The f32 2^p, MinExp <= p.
Pow2(p) == Round(0, 1, p, FALSE)

\* ---- end of f32 ----

(***************************************************************************)
(* Vector (crate::core::vector, not in this file): a sequence of f32 with  *)
(* size(), data(), dot_product() and norm().                               *)
(***************************************************************************)
Size(v) == Len(v)

\* Iterator::sum::<f32>() of the terms, left to right from the neutral
\* element z (0.0, or -0.0 in later toolchains: both are modelled).
RECURSIVE SumFrom(_, _)
SumFrom(z, terms) ==
    IF terms = <<>> THEN z
    ELSE SumFrom(Add(z, Head(terms)), Tail(terms))
SumIdentity == {Zero(0), Zero(1)}

\* a.iter().zip(b): pairs up to the shorter length.
ZipLen(a, b) == IF Len(a) <= Len(b) THEN Len(a) ELSE Len(b)

Ok(x) == [tag |-> "Ok", val |-> x]
DimensionsMismatch(expected, found) ==
    [tag |-> "Err", expected |-> expected, found |-> found]

\* Vector::dot_product: sum of the products, or the mismatch error.
DotProduct(a, b) ==
    IF Size(a) # Size(b) THEN DimensionsMismatch(Size(a), Size(b))
    ELSE Ok(SumFrom(Zero(0), [i \in 1..Len(a) |-> Mul(a[i], b[i])]))

\* Vector::norm: the square root of the sum of the squares.
Norm(a) == Sqrt(SumFrom(Zero(0), [i \in 1..Len(a) |-> Mul(a[i], a[i])]))

(***************************************************************************)
(* Distance                                                                *)
(***************************************************************************)
Metrics == {"Euclidean", "Manhattan", "CosineSim"}

\* Mutant: the guard with == for !=.
DimsEqual(a, b) == Size(a) = Size(b)

\* distance(), the guard of the early return.
DimsDiffer(a, b) == Size(a) # Size(b)

\* Mutant: the two sizes in each other's field.
MismatchErrorSwapped(a, b) == DimensionsMismatch(Size(b), Size(a))

\* distance(), the error of the early return.
MismatchError(a, b) == DimensionsMismatch(Size(a), Size(b))

\* Mutant: the differences summed without powi(2).
EuclideanNoSquare(a, b, z) ==
    Ok(Sqrt(SumFrom(z, [i \in 1..ZipLen(a, b) |-> Sub(a[i], b[i])])))

\* Mutant: the sum of squares returned without sqrt().
EuclideanNoSqrt(a, b, z) ==
    Ok(SumFrom(z, [i \in 1..ZipLen(a, b) |-> Powi2(Sub(a[i], b[i]))]))

\* The Euclidean arm.
EuclideanDistance(a, b, z) ==
    Ok(Sqrt(SumFrom(z, [i \in 1..ZipLen(a, b) |-> Powi2(Sub(a[i], b[i]))])))

\* Mutant: the differences summed without abs().
ManhattanNoAbs(a, b, z) ==
    Ok(SumFrom(z, [i \in 1..ZipLen(a, b) |-> Sub(a[i], b[i])]))

\* The Manhattan arm.
ManhattanDistance(a, b, z) ==
    Ok(SumFrom(z, [i \in 1..ZipLen(a, b) |-> Abs(Sub(a[i], b[i]))]))

\* Mutant: the zero-norm test with && for ||.
ZeroNormBoth(norm1, norm2) == FEq(norm1, Zero(0)) /\ FEq(norm2, Zero(0))

\* The zero-norm test of the CosineSim arm.
ZeroNorm(norm1, norm2) == FEq(norm1, Zero(0)) \/ FEq(norm2, Zero(0))

\* Mutant: the similarity left unclamped.
CosineUnclamped(dot, norm1, norm2) ==
    Ok(Sub(Lit(1), Div(dot, Mul(norm1, norm2))))

\* Mutant: the clamped similarity returned as the distance.
CosineSimilarityReturned(dot, norm1, norm2) ==
    Ok(Clamp(Div(dot, Mul(norm1, norm2)), Lit(-1), Lit(1)))

\* The last two lines of the CosineSim arm.
CosineOfNorms(dot, norm1, norm2) ==
    LET cosine_similarity == Clamp(Div(dot, Mul(norm1, norm2)), Lit(-1), Lit(1))
    IN  Ok(Sub(Lit(1), cosine_similarity))

\* The CosineSim arm; `?` returns the error of dot_product.
CosineDistance(a, b) ==
    LET dot == DotProduct(a, b)
        norm1 == Norm(a)
        norm2 == Norm(b)
    IN  IF dot.tag = "Err" THEN dot
        ELSE IF ZeroNorm(norm1, norm2) THEN Ok(Lit(1))
        ELSE CosineOfNorms(dot.val, norm1, norm2)

\* distance() as a whole, for the neutral element z of the build.
DistanceOf(d, a, b, z) ==
    IF DimsDiffer(a, b) THEN MismatchError(a, b)
    ELSE CASE d = "Euclidean" -> EuclideanDistance(a, b, z)
           [] d = "Manhattan" -> ManhattanDistance(a, b, z)
           [] d = "CosineSim" -> CosineDistance(a, b)

\* Text is a sequence of one-character strings.
UpperCase == <<"A", "B", "C", "D", "E", "F", "G", "H", "I", "J", "K", "L", "M",
               "N", "O", "P", "Q", "R", "S", "T", "U", "V", "W", "X", "Y", "Z">>
LowerCase == <<"a", "b", "c", "d", "e", "f", "g", "h", "i", "j", "k", "l", "m",
               "n", "o", "p", "q", "r", "s", "t", "u", "v", "w", "x", "y", "z">>

\* str::to_lowercase
ToLowerChar(c) ==
    IF \E i \in 1..Len(UpperCase) : UpperCase[i] = c
    THEN LowerCase[CHOOSE i \in 1..Len(UpperCase) : UpperCase[i] = c]
    ELSE c
ToLowercase(t) == [i \in 1..Len(t) |-> ToLowerChar(t[i])]

\* Mutant: a canonical name misspelt.
NameMisspelt(d) ==
    CASE d = "Euclidean" -> <<"e", "u", "c", "l", "i", "d", "e", "a", "n">>
      [] d = "Manhattan" -> <<"m", "a", "n", "h", "a", "t", "t", "a", "n">>
      [] d = "CosineSim" -> <<"c", "o", "s", "i", "n", "e">>

\* Distance::name
Name(d) ==
    CASE d = "Euclidean" -> <<"e", "u", "c", "l", "i", "d", "e", "a", "n">>
      [] d = "Manhattan" -> <<"m", "a", "n", "h", "a", "t", "t", "a", "n">>
      [] d = "CosineSim" -> <<"c", "o", "s", "i", "n", "e", "s", "i", "m">>

Some(d) == [tag |-> "Some", val |-> d]
None == [tag |-> "None"]

\* The match of from_name on the lowercased text.
MatchName(t) ==
    IF t = <<"e", "u", "c", "l", "i", "d", "e", "a", "n">> \/ t = <<"e">>
    THEN Some("Euclidean")
    ELSE IF t = <<"m", "a", "n", "h", "a", "t", "t", "a", "n">> \/ t = <<"m">>
    THEN Some("Manhattan")
    ELSE IF t = <<"c", "o", "s", "i", "n", "e", "s", "i", "m">> \/ t = <<"c">>
    THEN Some("CosineSim")
    ELSE None

\* Mutant: the match without to_lowercase().
FromNameCaseSensitive(t) == MatchName(t)

\* Distance::from_name
FromName(t) == MatchName(ToLowercase(t))

\* Display::fmt: write!(f, "{}", self.name())
Display(d) == Name(d)

UnknownPrefix == <<"U", "n", "k", "n", "o", "w", "n", " ", "d", "i", "s", "t",
                   "a", "n", "c", "e", " ", "m", "e", "t", "r", "i", "c", ":", " ">>
ErrText(msg) == [tag |-> "Err", msg |-> msg]

\* FromStr::from_str
FromStr(t) ==
    LET r == FromName(t)
    IN  IF r.tag = "Some" THEN Ok(r.val) ELSE ErrText(UnknownPrefix \o t)

(***************************************************************************)
(* The calls: one distance(), or a name()/to_string() whose text is then   *)
(* parsed, or a parse of an input text.                                    *)
(***************************************************************************)
VARIABLES pc, op, metric, v1, v2, text, origin, result, branch
vars == <<pc, op, metric, v1, v2, text, origin, result, branch>>

\* Longest vector.
MaxLen == 2

Tiny == Pow2(-100)
Huge == Pow2(100)

\* Ordinary components; components whose squares underflow or overflow, and
\* NaN; components whose norm is inexact.
PlainVals == {Zero(0), Lit(1), Lit(-1), Lit(3), Lit(4)}
EdgeVals == {Zero(0), Lit(1), Lit(-1), Tiny, Huge, NaN}
RoundVals == {Zero(0), Lit(1), Lit(-1), Lit(6), Lit(-6), Tiny}

Vectors(V) == UNION {[1..n -> V] : n \in 0..MaxLen}

Letters == {"e", "E", "m", "M", "c", "C", "x", " "}
Texts ==
    UNION {[1..n -> Letters] : n \in 0..2}
    \cup {Name(d) : d \in Metrics}
    \cup {<<"E", "u", "c", "l", "i", "d", "e", "a", "n">>,
          <<"M", "A", "N", "H", "A", "T", "T", "A", "N">>,
          <<"C", "o", "s", "i", "n", "e", "S", "i", "m">>,
          <<"c", "o", "s", "i", "n", "e">>,
          <<"e", "u", "c">>,
          <<"b", "o", "g", "u", "s">>,
          <<"e", "u", "c", "l", "i", "d", "e", "a", "n", " ">>,
          <<" ", "m", "a", "n", "h", "a", "t", "t", "a", "n">>}

NoResult == [tag |-> "none"]

InitDistance(V) ==
    /\ op = "distance" /\ pc = "entry"
    /\ metric \in Metrics
    /\ v1 \in Vectors(V) /\ v2 \in Vectors(V)
    /\ text = <<>> /\ origin = "none"

InitName ==
    /\ op \in {"name", "to_string"} /\ pc = "entry"
    /\ metric \in Metrics
    /\ v1 = <<>> /\ v2 = <<>>
    /\ text = <<>> /\ origin = "none"

InitParse ==
    /\ op \in {"from_name", "from_str"} /\ pc = "text"
    /\ metric = "none"
    /\ v1 = <<>> /\ v2 = <<>>
    /\ text \in Texts /\ origin = "input"

InitWith(V) ==
    /\ InitDistance(V) \/ InitName \/ InitParse
    /\ result = NoResult /\ branch = "none"

Init == InitWith(PlainVals)
InitEdge == InitWith(EdgeVals)
InitRound == InitWith(RoundVals)

\* distance(): the size check and its early return.
CheckDimensions ==
    /\ op = "distance" /\ pc = "entry"
    /\ IF DimsDiffer(v1, v2)
       THEN result' = MismatchError(v1, v2) /\ pc' = "done"
       ELSE result' = result /\ pc' = "match"
    /\ UNCHANGED <<op, metric, v1, v2, text, origin, branch>>

Euclidean ==
    /\ op = "distance" /\ pc = "match" /\ metric = "Euclidean"
    /\ \E z \in SumIdentity : result' = EuclideanDistance(v1, v2, z)
    /\ branch' = "Euclidean" /\ pc' = "done"
    /\ UNCHANGED <<op, metric, v1, v2, text, origin>>

Manhattan ==
    /\ op = "distance" /\ pc = "match" /\ metric = "Manhattan"
    /\ \E z \in SumIdentity : result' = ManhattanDistance(v1, v2, z)
    /\ branch' = "Manhattan" /\ pc' = "done"
    /\ UNCHANGED <<op, metric, v1, v2, text, origin>>

CosineSim ==
    /\ op = "distance" /\ pc = "match" /\ metric = "CosineSim"
    /\ result' = CosineDistance(v1, v2)
    /\ branch' = "CosineSim" /\ pc' = "done"
    /\ UNCHANGED <<op, metric, v1, v2, text, origin>>

\* d.name()
CallName ==
    /\ op = "name" /\ pc = "entry"
    /\ text' = Name(metric) /\ origin' = "name" /\ pc' = "text"
    /\ UNCHANGED <<op, metric, v1, v2, result, branch>>

\* d.to_string()
CallDisplay ==
    /\ op = "to_string" /\ pc = "entry"
    /\ text' = Display(metric) /\ origin' = "display" /\ pc' = "text"
    /\ UNCHANGED <<op, metric, v1, v2, result, branch>>

\* Distance::from_name(text), of an input or of a name
CallFromName ==
    /\ pc = "text" /\ op \in {"from_name", "name"}
    /\ result' = FromName(text) /\ pc' = "done"
    /\ UNCHANGED <<op, metric, v1, v2, text, origin, branch>>

\* text.parse::<Distance>(), of an input or of a displayed metric
CallFromStr ==
    /\ pc = "text" /\ op \in {"from_str", "to_string"}
    /\ result' = FromStr(text) /\ pc' = "done"
    /\ UNCHANGED <<op, metric, v1, v2, text, origin, branch>>

Next ==
    \/ CheckDimensions
    \/ Euclidean
    \/ Manhattan
    \/ CosineSim
    \/ CallName
    \/ CallDisplay
    \/ CallFromName
    \/ CallFromStr

Spec == Init /\ [][Next]_vars
SpecEdge == InitEdge /\ [][Next]_vars
SpecRound == InitRound /\ [][Next]_vars

(***************************************************************************)
(* Properties                                                              *)
(***************************************************************************)
DistanceDone == op = "distance" /\ pc = "done"
SameSize == Len(v1) = Len(v2)
FLe(x, y) == FLt(x, y) \/ FEq(x, y)

\* C1: whatever the metric, vectors of different sizes give
\* DimensionsMismatch with expected = v1's size and found = v2's size, and
\* the call returns from the size check: it never reaches the match and no
\* arm is entered.
C1_MismatchBeforeAnyArm ==
    (op = "distance" /\ Len(v1) # Len(v2)) =>
        /\ pc # "match"
        /\ branch = "none"
        /\ pc = "done" =>
              result = [tag |-> "Err", expected |-> Len(v1), found |-> Len(v2)]

C1_Witness ==
    /\ DistanceDone /\ metric = "CosineSim"
    /\ Len(v1) = 2 /\ Len(v2) = 1
    /\ result.tag = "Err" /\ result.expected = 2 /\ result.found = 1

\* C2: vectors of equal size (size 0 included) always give Ok with an f32,
\* for every metric; the only error is DimensionsMismatch and it is returned
\* only for different sizes; in the CosineSim arm dot_product never returns
\* an error.
C2_OkOnEqualSizes ==
    /\ (DistanceDone /\ SameSize) =>
          /\ result.tag = "Ok"
          /\ result.val.k \in {"fin", "inf", "nan"}
          /\ branch = metric
    /\ (DistanceDone /\ result.tag # "Ok") =>
          /\ ~SameSize
          /\ result.tag = "Err"
          /\ DOMAIN result = {"tag", "expected", "found"}
    /\ (op = "distance" /\ pc = "match" /\ metric = "CosineSim") =>
          DotProduct(v1, v2).tag = "Ok"

C2_Witness ==
    /\ DistanceDone /\ metric = "CosineSim"
    /\ v1 = <<>> /\ v2 = <<>>
    /\ result.tag = "Ok"

AllFinite(v) == \A i \in 1..Len(v) : IsFinite(v[i])
AllZero(v) == \A i \in 1..Len(v) : IsZero(v[i])
ElementwiseEqual(a, b) == \A i \in 1..Len(a) : FEq(a[i], b[i])
Negated(v) == [i \in 1..Len(v) |-> Neg(v[i])]

\* C4 as stated, taken on vectors of finite components (the claim says all
\* vectors): for Euclidean and Manhattan and vectors of equal size the
\* result is non-negative, and it is 0 iff the vectors are element-wise
\* identical.
C4_ZeroIffIdentical ==
    (DistanceDone /\ SameSize /\ metric \in {"Euclidean", "Manhattan"}
       /\ AllFinite(v1) /\ AllFinite(v2)) =>
        /\ result.tag = "Ok"
        /\ FLe(Zero(0), result.val)
        /\ FEq(result.val, Zero(0)) <=> v1 = v2

\* C4 amended: for Euclidean and Manhattan and equal-size vectors of finite
\* components the result is non-negative (possibly +inf) and is 0 whenever
\* the vectors are element-wise equal; Manhattan is 0 only if they are
\* element-wise equal; Euclidean is 0 exactly when every squared difference
\* is 0 in f32, which includes unequal components whose squared difference
\* underflows.
C4_ZeroIffNoSquaredDifference ==
    (DistanceDone /\ SameSize /\ metric \in {"Euclidean", "Manhattan"}
       /\ AllFinite(v1) /\ AllFinite(v2)) =>
        /\ result.tag = "Ok"
        /\ FLe(Zero(0), result.val)
        /\ ElementwiseEqual(v1, v2) => FEq(result.val, Zero(0))
        /\ metric = "Manhattan" =>
              (FEq(result.val, Zero(0)) => ElementwiseEqual(v1, v2))
        /\ metric = "Euclidean" =>
              (FEq(result.val, Zero(0)) <=>
                 \A i \in 1..Len(v1) :
                     LET d == Sub(v1[i], v2[i]) IN IsZero(Mul(d, d)))

C4_Witness ==
    /\ DistanceDone /\ metric = "Euclidean"
    /\ v1 = <<Lit(1), Tiny>> /\ v2 = <<Lit(1), Zero(0)>>
    /\ result.tag = "Ok" /\ IsZero(result.val)

\* The integer a finite f32 holds, rounded down, and whether it holds one.
FloorInt(x) ==
    LET mag == IF x.e >= 0 THEN x.m * 2^x.e
               ELSE IF 0 - x.e > 30 THEN 0 ELSE x.m \div 2^(0 - x.e)
    IN  IF x.s = 1 THEN 0 - mag ELSE mag
IsInt(x) ==
    /\ IsFinite(x)
    /\ x.m = 0 \/ x.e >= 0 \/ (0 - x.e <= 30 /\ x.m % 2^(0 - x.e) = 0)
AbsInt(n) == IF n < 0 THEN 0 - n ELSE n
RECURSIVE SumInt(_)
SumInt(q) == IF q = <<>> THEN 0 ELSE Head(q) + SumInt(Tail(q))
IntDiffs == [i \in 1..Len(v1) |-> FloorInt(v1[i]) - FloorInt(v2[i])]

\* C5: on equal-size vectors Euclidean is sqrt(sum (v1[i]-v2[i])^2) and
\* Manhattan is sum |v1[i]-v2[i]|: for integer components Manhattan is the
\* exact integer sum, Euclidean lies within the unit interval of the exact
\* root and is the root itself when the sum of squares is a perfect square;
\* [0,0] and [3,4] give exactly 5 and 7.
C5_Formulas ==
    (DistanceDone /\ SameSize /\ metric \in {"Euclidean", "Manhattan"}
       /\ (\A i \in 1..Len(v1) : IsInt(v1[i]) /\ IsInt(v2[i]))) =>
        LET sumAbs == SumInt([i \in 1..Len(v1) |-> AbsInt(IntDiffs[i])])
            sumSq == SumInt([i \in 1..Len(v1) |-> IntDiffs[i] * IntDiffs[i]])
            r == result.val
        IN  /\ result.tag = "Ok"
            /\ IsFinite(r)
            /\ metric = "Manhattan" => IsInt(r) /\ FloorInt(r) = sumAbs
            /\ metric = "Euclidean" =>
                  /\ FloorInt(r) * FloorInt(r) <= sumSq
                  /\ sumSq < (FloorInt(r) + 1) * (FloorInt(r) + 1)
                  /\ IsInt(r) <=> (\E n \in 0..sumSq : n * n = sumSq)
            /\ (v1 = <<Zero(0), Zero(0)>> /\ v2 = <<Lit(3), Lit(4)>>) =>
                  r = (IF metric = "Euclidean" THEN Fin(0, 5 * 2^21, -21)
                       ELSE Fin(0, 7 * 2^21, -21))

C5_Witness ==
    /\ DistanceDone /\ metric = "Euclidean"
    /\ v1 = <<Zero(0), Zero(0)>> /\ v2 = <<Lit(3), Lit(4)>>
    /\ result = Ok(Lit(5))

\* C6: for CosineSim and vectors of equal size, when either vector's norm is
\* exactly zero (every component zero, or the computed norm 0.0), whatever
\* the other vector holds, the result is Ok(1.0).
C6_ZeroNormIsOne ==
    (DistanceDone /\ SameSize /\ metric = "CosineSim"
       /\ (AllZero(v1) \/ AllZero(v2)
             \/ FEq(Norm(v1), Zero(0)) \/ FEq(Norm(v2), Zero(0)))) =>
        result = [tag |-> "Ok", val |-> Fin(0, 2^23, -23)]

C6_Witness ==
    /\ DistanceDone /\ metric = "CosineSim"
    /\ v1 = <<Zero(0), Zero(0)>> /\ v2 = <<NaN, Huge>>
    /\ result = Ok(Lit(1))

\* C7 as stated, taken on vectors of finite components (the claim says all
\* vectors): for CosineSim and vectors of equal size the result lies in
\* [0, 2].
C7_WithinZeroTwo ==
    (DistanceDone /\ SameSize /\ metric = "CosineSim"
       /\ AllFinite(v1) /\ AllFinite(v2)) =>
        /\ result.tag = "Ok"
        /\ FLe(Zero(0), result.val) /\ FLe(result.val, Lit(2))

\* C7 amended: for CosineSim and vectors of equal size the result lies in
\* [0, 2] or is NaN; it is NaN only when the dot product or a norm is NaN or
\* infinite (a NaN or infinite component, or finite components whose
\* products overflow), because clamp returns a NaN ratio unchanged.
C7_WithinZeroTwoOrNaN ==
    (DistanceDone /\ SameSize /\ metric = "CosineSim") =>
        /\ result.tag = "Ok"
        /\ \/ IsNaN(result.val)
           \/ FLe(Zero(0), result.val) /\ FLe(result.val, Lit(2))
        /\ IsNaN(result.val) =>
              \/ ~IsFinite(DotProduct(v1, v2).val)
              \/ ~IsFinite(Norm(v1))
              \/ ~IsFinite(Norm(v2))

\* The clamp acts: the ratio of [1,1] with itself exceeds 1.
C7_Witness ==
    /\ DistanceDone /\ metric = "CosineSim"
    /\ v1 = <<Lit(1), Lit(1)>> /\ v2 = v1
    /\ FGt(Div(DotProduct(v1, v2).val, Mul(Norm(v1), Norm(v2))), Lit(1))
    /\ result = Ok(Zero(0))

NonZero(v) == \E i \in 1..Len(v) : ~IsZero(v[i])
Tolerance == Pow2(-20)

\* Components that are 0 or of a magnitude in [2^-6, 2^15): no product of two
\* of them overflows or underflows.
Moderate(v) ==
    \A i \in 1..Len(v) :
        IsFinite(v[i]) /\ (IsZero(v[i]) \/ (v[i].e >= -29 /\ v[i].e <= -9))

\* C8 as stated, taken on vectors of moderate components (the claim says
\* every non-zero vector): for CosineSim, distance(v, v) = 0 and
\* distance(v, -v) = 2 for every non-zero v, and the distance of two
\* non-zero vectors of equal size whose dot product is 0 is 1.
C8_ExactZeroTwoOne ==
    (DistanceDone /\ SameSize /\ metric = "CosineSim"
       /\ NonZero(v1) /\ NonZero(v2) /\ Moderate(v1) /\ Moderate(v2)) =>
        /\ result.tag = "Ok"
        /\ v2 = v1 => FEq(result.val, Zero(0))
        /\ v2 = Negated(v1) => FEq(result.val, Lit(2))
        /\ FEq(DotProduct(v1, v2).val, Zero(0)) => FEq(result.val, Lit(1))

\* C8 amended: for CosineSim, [1,0] with [1,0] gives 0, with [-1,0] gives 2
\* and with [0,1] gives 1; two non-zero vectors of equal size whose f32 dot
\* product is 0 give exactly 1; for a non-zero v, distance(v, v) is within
\* 1e-6 of 0 and distance(v, -v) within 1e-6 of 2 (not always equal to them)
\* when the sum of squares of v is finite and not 0 in f32; when it
\* underflows to 0 both are 1.0.
C8_ZeroTwoOneUpToRounding ==
    (DistanceDone /\ SameSize /\ metric = "CosineSim"
       /\ NonZero(v1) /\ NonZero(v2)) =>
        LET r == result.val
            sq == DotProduct(v1, v1).val
        IN  /\ result.tag = "Ok"
            /\ v1 = <<Lit(1), Zero(0)>> =>
                  /\ v2 = <<Lit(1), Zero(0)>> => r = Zero(0)
                  /\ v2 = <<Lit(-1), Zero(0)>> => r = Fin(0, 2^23, -22)
                  /\ v2 = <<Zero(0), Lit(1)>> => r = Fin(0, 2^23, -23)
            /\ FEq(DotProduct(v1, v2).val, Zero(0)) => FEq(r, Lit(1))
            /\ (v2 = v1 /\ IsFinite(sq) /\ ~IsZero(sq)) =>
                  FLe(Zero(0), r) /\ FLe(r, Tolerance)
            /\ (v2 = Negated(v1) /\ IsFinite(sq) /\ ~IsZero(sq)) =>
                  FLe(Sub(Lit(2), Tolerance), r) /\ FLe(r, Lit(2))
            /\ ((v2 = v1 \/ v2 = Negated(v1)) /\ IsZero(sq)) => FEq(r, Lit(1))

\* distance([1,6], [1,6]) is 2^-23, not 0.
C8_Witness ==
    /\ DistanceDone /\ metric = "CosineSim"
    /\ v1 = <<Lit(1), Lit(6)>> /\ v2 = v1
    /\ result = Ok(Pow2(-23))

\* The upper-case letter of a lower-case one.
UpperOf(c) ==
    IF \E i \in 1..Len(LowerCase) : LowerCase[i] = c
    THEN UpperCase[CHOOSE i \in 1..Len(LowerCase) : LowerCase[i] = c]
    ELSE c
SameIgnoringCase(t, lower) ==
    /\ Len(t) = Len(lower)
    /\ \A i \in 1..Len(t) : t[i] = lower[i] \/ t[i] = UpperOf(lower[i])
CanonicalName ==
    [d \in Metrics |->
        CASE d = "Euclidean" -> <<"e", "u", "c", "l", "i", "d", "e", "a", "n">>
          [] d = "Manhattan" -> <<"m", "a", "n", "h", "a", "t", "t", "a", "n">>
          [] d = "CosineSim" -> <<"c", "o", "s", "i", "n", "e", "s", "i", "m">>]
Shorthand ==
    [d \in Metrics |->
        CASE d = "Euclidean" -> <<"e">>
          [] d = "Manhattan" -> <<"m">>
          [] d = "CosineSim" -> <<"c">>]
Names(t) ==
    {d \in Metrics :
        SameIgnoringCase(t, CanonicalName[d]) \/ SameIgnoringCase(t, Shorthand[d])}

\* C9: from_name is total and case-insensitive: it returns Some(d) iff the
\* text is, whatever its case, d's canonical name or its one-letter
\* shorthand, and None for every other text (the empty text, a prefix, a
\* name with a space before or after it, "bogus").
C9_FromNameLookup ==
    (op = "from_name" /\ pc = "done") =>
        /\ \A d \in Metrics : (result = [tag |-> "Some", val |-> d]) <=> d \in Names(text)
        /\ (result = [tag |-> "None"]) <=> Names(text) = {}
        /\ result.tag \in {"Some", "None"}

C9_Witness ==
    /\ op = "from_name" /\ pc = "done"
    /\ text = <<"M", "A", "N", "H", "A", "T", "T", "A", "N">>
    /\ result = Some("Manhattan")

\* C10: for each variant d, from_name(name(d)) = Some(d); the displayed text
\* of d is name(d), one of "euclidean", "manhattan", "cosinesim"; from_str
\* of the displayed text is Ok(d); the three names are pairwise distinct.
C10_NameRoundTrip ==
    /\ (op \in {"name", "to_string"} /\ pc \in {"text", "done"}) =>
          text = CanonicalName[metric]
    /\ (op = "name" /\ pc = "done") => result = [tag |-> "Some", val |-> metric]
    /\ (op = "to_string" /\ pc = "done") => result = [tag |-> "Ok", val |-> metric]
    /\ \A d1, d2 \in Metrics : Name(d1) = Name(d2) => d1 = d2
    /\ \A d \in Metrics : Display(d) = Name(d)

C10_Witness ==
    /\ op = "to_string" /\ pc = "done" /\ origin = "display"
    /\ metric = "CosineSim"
    /\ text = <<"c", "o", "s", "i", "n", "e", "s", "i", "m">>
    /\ result = Ok("CosineSim")

====
